---- MODULE Spec2Model ----
(***************************************************************************)
(* A model of the YouTube phrase scanner:                                  *)
(*   - the segment planner (split_audio_sliding / _split_audio),           *)
(*   - the retrying transcription client (transcribe_segment),             *)
(*   - the transcript scanner (_scan_transcripts / scan_transcripts),      *)
(*   - one video from the split to the scan (_process_single_video),       *)
(*   - the SQS/S3 batch worker (YouTubePhraseScanner.process_batch).       *)
(* Each part has its own specification over the same variables; the parts  *)
(* a specification does not run are held at their idle values.             *)
(***************************************************************************)
EXTENDS Integers, Sequences, FiniteSets, TLC

VARIABLES
    \* ---- segment planner ----
    variant,            \* which planner runs: "sliding" or "fixed"
    total_duration,     \* get_audio_duration(wav_file)
    segment_duration,   \* parameter of the planner
    overlap,            \* parameter of the planner
    start_time,         \* loop variable
    idx,                \* loop variable
    segments,           \* the clips requested from ffmpeg so far
    plan_pc,            \* "idle", "loop", "done"
    \* ---- transcription client ----
    retries,            \* parameter of transcribe_segment
    backoff_factor,     \* parameter of transcribe_segment
    attempt,            \* loop variable of `for attempt in range(retries)`
    outcomes,           \* the provider's answers so far, one per call
    sleeps,             \* the arguments of time.sleep so far
    tr_result,          \* the value returned
    tr_pc,              \* "idle", "loop", "returned", "raised"
    \* ---- batch worker: configuration ----
    batch_size,         \* self.batch_size
    use_gpu,            \* self.use_gpu (main: not args.cpu)
    s3_prefix,          \* self.s3_prefix (main: args.s3_prefix)
    whisperx_model,     \* per worker: self.whisperx_model
    \* ---- batch worker: the S3 bucket's existence ----
    bucket,             \* "present" or "absent"
    \* ---- batch worker: the SQS queue ----
    qstate,             \* per message: "unsent", "visible", "inflight", "deleted"
    body,               \* per message: its body, once a receive has read it
    \* ---- batch worker: the S3 bucket ----
    store_results,      \* objects under results/: <<video id, message, second, writer>>
    store_transcripts,  \* objects under the transcript prefix: <<video id, segment>>
    \* ---- batch worker: one process per worker ----
    pc,                 \* where the worker stands in process_batch
    processed_count,    \* local of process_batch
    batch_results,      \* local of process_batch
    youtube_url,        \* what the last _get_video_from_queue returned
    cur,                \* the message that call took its answer from (0: none)
    video_id,           \* local of process_batch
    nseg,               \* len(segments) in _process_single_video
    seg,                \* position of `for seg_file in segments`
    log,                \* the worker's log records
    \* ---- batch worker: bookkeeping of the model ----
    hist,               \* per message: what was done for it, in order
    faults,             \* failures of the environment so far
    runs,               \* runs of main() started so far
    max_runs,           \* runs of main() this behaviour may have
    max_msgs,           \* messages this behaviour may send
    \* ---- transcript scanner ----
    scan_phrase,        \* parameter of _scan_transcripts
    scan_n,             \* len(txt_files): segment_000.txt .. in sorted order
    scan_i,             \* position of `for txt_file in txt_files`
    scan_content,       \* content of the file read last
    scan_seen,          \* per file read: its index, count, words and chars
    total_occurrences,  \* local of _scan_transcripts
    total_words,        \* local of _scan_transcripts
    total_chars,        \* local of _scan_transcripts
    files_with_phrase,  \* local of _scan_transcripts
    scan_pc             \* "idle", "loop", "done"

planVars == <<variant, total_duration, segment_duration, overlap,
              start_time, idx, segments, plan_pc>>
trVars   == <<retries, backoff_factor, attempt, outcomes, sleeps, tr_result, tr_pc>>
queueVars == <<qstate, body>>
storeVars == <<store_results, store_transcripts>>
localVars == <<pc, processed_count, batch_results, youtube_url, cur, video_id,
               nseg, seg, log>>
setupVars == <<use_gpu, whisperx_model, bucket>>
configVars == <<batch_size, s3_prefix, max_runs, max_msgs, setupVars>>
scanVars == <<scan_phrase, scan_n, scan_i, scan_content, scan_seen,
              total_occurrences, total_words, total_chars, files_with_phrase, scan_pc>>
batchVars == <<configVars, queueVars, storeVars, localVars, hist, faults, runs>>

-----------------------------------------------------------------------------
(* Bounds of the model *)
MaxTotal   == 7    \* largest total duration fed to the planner
MaxSeg     == 4    \* largest segment duration / overlap fed to the planner
MaxRetries == 3    \* largest retry limit fed to the transcription client
MaxBackoff == 2    \* largest backoff factor fed to the transcription client
MaxMsgs    == 3    \* messages ever sent to the queue
MaxFaults  == 1    \* failures of the environment in one behaviour
MaxRuns    == 2    \* runs of the worker process
MaxText    == 3    \* longest transcript fed to the scanner
MaxFiles   == 2    \* most transcripts of one video fed to the scanner

\* the planner's loop is cut after this many iterations (it has no bound of
\* its own when the step is not positive)
MaxIters == MaxTotal + 1

\* defaults of transcribe_segment(segment_file, retries=3, backoff_factor=2)
DefaultRetries == 3
DefaultBackoff == 2

-----------------------------------------------------------------------------
(* Segment planner *)

\* ceil(a / b) for b > 0
Ceil(a, b) == IF a <= 0 THEN 0 ELSE ((a - 1) \div b) + 1

\* step of the sliding-window planner: download_youtube-SlidingWindow.py:48
SlidingStep(segdur, ovl) == segdur - ovl

\* step of the worker's planner: scan-sqs-s3.py:254 (overlap is not used)
FixedStep(segdur, ovl) == segdur

PlanStep == IF variant = "sliding"
            THEN SlidingStep(segment_duration, overlap)
            ELSE FixedStep(segment_duration, overlap)

PlanIdle == /\ variant = "none"
            /\ total_duration = 0
            /\ segment_duration = 0
            /\ overlap = 0
            /\ start_time = 0
            /\ idx = 0
            /\ segments = <<>>
            /\ plan_pc = "idle"

\* a call of the planner: total_duration = get_audio_duration(wav_file),
\* segments = [], idx = 0, start_time = 0
PlanInit == /\ variant \in {"sliding", "fixed"}
            /\ total_duration \in 0..MaxTotal
            /\ segment_duration \in 0..MaxSeg
            /\ overlap \in 0..MaxSeg
            /\ start_time = 0
            /\ idx = 0
            /\ segments = <<>>
            /\ plan_pc = "loop"

\* the clip one iteration asks ffmpeg for: -ss start_time -t segment_duration,
\* written to segment_{idx:03d}.wav
\* a clip request cut back to what is left of the audio
ClipClamped(i, start, segdur) ==
    [index |-> i, start |-> start,
     duration |-> IF start + segdur > total_duration
                  THEN total_duration - start ELSE segdur]

Clip(i, start, segdur) == [index |-> i, start |-> start, duration |-> segdur]

\* a planner that leaves a gap of one second between two windows
NextStartGap(start) == start + segment_duration + 1

NextStart(start) == start + PlanStep

\* one iteration of `while start_time < total_duration`
PlanIter ==
    /\ plan_pc = "loop"
    /\ start_time < total_duration
    /\ idx < MaxIters
    /\ segments' = Append(segments, Clip(idx, start_time, segment_duration))
    /\ idx' = idx + 1
    /\ start_time' = NextStart(start_time)
    /\ UNCHANGED <<variant, total_duration, segment_duration, overlap, plan_pc>>

\* the loop condition fails: return segments
PlanReturn ==
    /\ plan_pc = "loop"
    /\ ~(start_time < total_duration)
    /\ plan_pc' = "done"
    /\ UNCHANGED <<variant, total_duration, segment_duration, overlap,
                   start_time, idx, segments>>

-----------------------------------------------------------------------------
(* Transcription client *)

ProviderOutcomes == {"ok_text", "ok_notext", "status", "throws", "malformed"}
\* a client that takes an answer without text for a failed attempt
FailuresOrNoText == {"status", "throws", "malformed", "ok_notext"}

\* the answers that do not reach `return result.get("text", "")`
Failures == {"status", "throws", "malformed"}

TrIdle == /\ retries = 0
          /\ backoff_factor = 0
          /\ attempt = 0
          /\ outcomes = <<>>
          /\ sleeps = <<>>
          /\ tr_result = "unset"
          /\ tr_pc = "idle"

TrInit == /\ retries \in 0..MaxRetries
          /\ backoff_factor \in 0..MaxBackoff
          /\ attempt = 0
          /\ outcomes = <<>>
          /\ sleeps = <<>>
          /\ tr_result = "unset"
          /\ tr_pc = "loop"

\* a backoff that grows linearly
PowLinear(b, e) == b * e

\* backoff_factor ** attempt (Python: 0 ** 0 = 1)
Pow(b, e) == IF e = 0 THEN 1 ELSE b ^ e

\* result.get("text", "")
GetText(o) == IF o = "ok_text" THEN "text" ELSE ""

\* a client that gives up after the first failed attempt
AfterFailureGiveUp(a) == /\ sleeps' = Append(sleeps, Pow(backoff_factor, a))
                         /\ tr_result' = ""
                         /\ tr_pc' = "returned"
                         /\ UNCHANGED attempt

\* what follows a failed attempt: time.sleep(backoff_factor ** attempt), then
\* the next value of range(retries)
\* (time.sleep raises ValueError on a negative argument, outside the try)
AfterFailure(a) == IF Pow(backoff_factor, a) < 0
                   THEN /\ tr_pc' = "raised"
                        /\ UNCHANGED <<sleeps, attempt, tr_result>>
                   ELSE /\ sleeps' = Append(sleeps, Pow(backoff_factor, a))
                        /\ attempt' = a + 1
                        /\ UNCHANGED <<tr_result, tr_pc>>

\* one iteration of `for attempt in range(retries)`: the POST and its answer
TrAttempt(o) ==
    /\ tr_pc = "loop"
    /\ attempt < retries
    /\ outcomes' = Append(outcomes, o)
    /\ IF o \in Failures
       THEN AfterFailure(attempt)
       ELSE /\ tr_result' = GetText(o)
            /\ tr_pc' = "returned"
            /\ UNCHANGED <<sleeps, attempt>>
    /\ UNCHANGED <<retries, backoff_factor>>

\* range(retries) is exhausted: return ""
TrExhausted ==
    /\ tr_pc = "loop"
    /\ ~(attempt < retries)
    /\ tr_result' = ""
    /\ tr_pc' = "returned"
    /\ UNCHANGED <<retries, backoff_factor, attempt, outcomes, sleeps>>

-----------------------------------------------------------------------------
(* Transcript scanner: _scan_transcripts / scan_transcripts *)

\* the characters of the model: a letter in its two cases, and a blank
Chars == {"a", "A", " "}

RECURSIVE SeqsUpTo(_, _)
SeqsUpTo(S, n) ==
    IF n = 0 THEN {<<>>}
    ELSE LET shorter == SeqsUpTo(S, n - 1)
         IN  shorter \cup {Append(q, c) : q \in shorter, c \in S}

Texts == SeqsUpTo(Chars, MaxText)

\* the phrases scanned for: one letter, a word, two words with a blank
Phrases == {<<"a">>, <<"A">>, <<"a", "a">>, <<"a", "A">>, <<"A", "A">>,
            <<"a", " ", "a">>, <<"A", " ", "a">>}

\* a match that tells the cases apart
FoldNone(c) == c

\* re.IGNORECASE: characters are compared without regard to case
Fold(c) == IF c = "A" THEN "a" ELSE c

\* the pattern re.escape(phrase) matches at position i of content
MatchesAt(p, t, i) ==
    /\ i + Len(p) - 1 <= Len(t)
    /\ \A k \in 1..Len(p) : Fold(t[i + k - 1]) = Fold(p[k])

\* len(re.findall(pattern, content, re.IGNORECASE)): the matches are taken
\* from left to right and do not overlap
RECURSIVE FindAllFrom(_, _, _)
FindAllFrom(p, t, i) ==
    IF i > Len(t) THEN 0
    ELSE IF MatchesAt(p, t, i) THEN 1 + FindAllFrom(p, t, i + Len(p))
    ELSE FindAllFrom(p, t, i + 1)

CountOcc(p, t) == FindAllFrom(p, t, 1)

\* len(content.split()): the runs of characters that are not blank
WordCount(t) ==
    Cardinality({i \in 1..Len(t) : t[i] # " " /\ (i = 1 \/ t[i - 1] = " ")})

\* a scanner that records every file
ShouldRecordAlways(count) == count >= 0

\* a label that is the segment's index itself
MinuteOfIndex(index) == index

\* minute_idx = int(txt_file.split('_')[1].split('.')[0]); "minute": minute_idx + 1
MinuteOf(index) == index + 1

\* `if count_occ > 0`
ShouldRecord(count) == count > 0

\* the seconds _scan_transcripts counts for each transcript file
SecondsPerFile == 60

\* an estimate that counts the full segments only
VideoDurationFull(num_segments) ==
    IF num_segments = 0 THEN 0 ELSE (num_segments - 1) * SecondsPerFile

\* num_segments = len(txt_files); video_duration_sec = num_segments * 60
VideoDurationSec(num_segments) == num_segments * SecondsPerFile

ScanIdle ==
    /\ scan_phrase = <<>>
    /\ scan_n = 0
    /\ scan_i = 0
    /\ scan_content = <<>>
    /\ scan_seen = <<>>
    /\ total_occurrences = 0
    /\ total_words = 0
    /\ total_chars = 0
    /\ files_with_phrase = <<>>
    /\ scan_pc = "idle"

\* a call of the scanner on a directory of scan_n transcripts
ScanInit ==
    /\ scan_phrase \in Phrases
    /\ scan_n \in 0..MaxFiles
    /\ scan_i = 0
    /\ scan_content = <<>>
    /\ scan_seen = <<>>
    /\ total_occurrences = 0
    /\ total_words = 0
    /\ total_chars = 0
    /\ files_with_phrase = <<>>
    /\ scan_pc = "loop"

\* one iteration of `for txt_file in txt_files`: the file of index scan_i is
\* read and counted
ScanFile ==
    /\ scan_pc = "loop"
    /\ scan_i < scan_n
    /\ \E content \in Texts :
         LET count_occ == CountOcc(scan_phrase, content) IN
         /\ scan_content' = content
         /\ total_occurrences' = total_occurrences + count_occ
         /\ total_words' = total_words + WordCount(content)
         /\ total_chars' = total_chars + Len(content)
         /\ files_with_phrase' =
                IF ShouldRecord(count_occ)
                THEN Append(files_with_phrase,
                            [index |-> scan_i, minute |-> MinuteOf(scan_i),
                             occurrences |-> count_occ])
                ELSE files_with_phrase
         /\ scan_seen' = Append(scan_seen,
                [index |-> scan_i, occurrences |-> count_occ,
                 words |-> WordCount(content), chars |-> Len(content)])
    /\ scan_i' = scan_i + 1
    /\ UNCHANGED <<scan_phrase, scan_n, scan_pc>>

\* the list is exhausted: return stats
ScanReturn ==
    /\ scan_pc = "loop"
    /\ scan_i = scan_n
    /\ scan_pc' = "done"
    /\ UNCHANGED <<scan_phrase, scan_n, scan_i, scan_content, scan_seen,
                   total_occurrences, total_words, total_chars, files_with_phrase>>

-----------------------------------------------------------------------------
(* One video: _process_single_video from the split to the scan *)

\* _split_audio(self, wav_file, temp_dir, segment_duration=60, overlap=0)
DefaultSegmentDuration == 60

\* the durations ffprobe reports for the video: nothing, one full segment,
\* two full segments and a rest
VideoDurations == {0, 60, 125}

\* segments = self._split_audio(audio_wav, video_temp_dir), with the defaults
VideoInit ==
    /\ variant = "fixed"
    /\ total_duration \in VideoDurations
    /\ segment_duration = DefaultSegmentDuration
    /\ overlap = 0
    /\ start_time = 0
    /\ idx = 0
    /\ segments = <<>>
    /\ plan_pc = "loop"

\* the segment loop has written one .txt file per segment into the video's
\* directory; stats = self._scan_transcripts(video_temp_dir, phrase)
VideoScan ==
    /\ plan_pc = "done"
    /\ scan_pc = "idle"
    /\ scan_phrase' \in Phrases
    /\ scan_n' = Len(segments)
    /\ scan_pc' = "loop"
    /\ UNCHANGED <<scan_i, scan_content, scan_seen, total_occurrences, total_words,
                   total_chars, files_with_phrase>>

-----------------------------------------------------------------------------
(* Batch worker: YouTubePhraseScanner over an SQS queue and an S3 bucket *)

Workers == {"w1", "w2"}
Msgs    == 1..MaxMsgs

\* the constants of scan-sqs-s3.py
DEFAULT_S3_PREFIX == "transcripts"
DEFAULT_RESULTS_PREFIX == "results"

\* the values of --s3_prefix: the default, and the name of the results prefix
\* (any other name behaves as the default does)
Prefixes == {DEFAULT_S3_PREFIX, DEFAULT_RESULTS_PREFIX}

\* the durations ffprobe reports in this model: no segment, two segments
Durations == {0, 100}

\* A message body as json.loads and the lookups of _get_video_from_queue see it:
\*   "notjson"    json.loads raises JSONDecodeError
\*   "nourl"      an object without 'youtube_url' (or text without that word)
\*   "scalar"     a JSON value on which the lookup raises (a number, null, ...)
\*   "falsy"      'youtube_url' is present and empty or null
\*   "nonstring"  'youtube_url' is present, true-ish and not a string
\*   "url"        'youtube_url' is a string; vid is the id its pattern yields,
\*                0 when the pattern does not match
\* phrase is the body's 'phrase': "absent" when the body has no such key, ""
\* for the empty string (or null, or another value that counts as false),
\* "custom" for a phrase of its own
PhraseValues == {"absent", "", "custom"}
Unread == [kind |-> "unread", vid |-> 0, phrase |-> "absent"]
Malformed == {[kind |-> k, vid |-> 0, phrase |-> "absent"] :
                 k \in {"notjson", "nourl", "scalar", "falsy", "nonstring"}}

\* video ids are numbered in the order in which the queue first shows them;
\* urls without an id and messages with a phrase of their own are explored
\* for single runs of a single worker with a batch of one, and with several
\* workers the malformed bodies are the two that end in different queue
\* states (left in flight, deleted)
SeenVids == {body[m].vid : m \in Msgs}
Alone == Cardinality({w \in Workers : pc[w] # "off"}) <= 1
Wide == batch_size = 1 /\ max_runs = 1 /\ Alone
NewBodies == (IF Alone THEN Malformed
                       ELSE {b \in Malformed : b.kind \in {"notjson", "nourl"}}) \cup
             {[kind |-> "url", vid |-> v, phrase |-> p] :
                 v \in (IF Wide THEN {0} ELSE {}) \cup 1..(Cardinality(SeenVids \ {0}) + 1),
                 p \in (IF Wide THEN PhraseValues ELSE {"absent"})}

NoWork == {"None", "empty"}

BatchIdle ==
    /\ batch_size = 0
    /\ s3_prefix = DEFAULT_S3_PREFIX
    /\ use_gpu = FALSE
    /\ whisperx_model = [w \in Workers |-> "unset"]
    /\ bucket = "absent"
    /\ qstate = [m \in Msgs |-> "unsent"]
    /\ body = [m \in Msgs |-> Unread]
    /\ store_results = {}
    /\ store_transcripts = {}
    /\ pc = [w \in Workers |-> "off"]
    /\ processed_count = [w \in Workers |-> 0]
    /\ batch_results = [w \in Workers |-> <<>>]
    /\ youtube_url = [w \in Workers |-> "unset"]
    /\ cur = [w \in Workers |-> 0]
    /\ video_id = [w \in Workers |-> 0]
    /\ nseg = [w \in Workers |-> 0]
    /\ seg = [w \in Workers |-> 0]
    /\ log = [w \in Workers |-> <<>>]
    /\ hist = [m \in Msgs |-> <<>>]
    /\ faults = 0
    /\ runs = 0
    /\ max_runs = 0
    /\ max_msgs = 0

\* `while processed_count < self.batch_size`, as the place the loop goes to
LoopPcOffByOne(count) == IF count <= batch_size THEN "probe" ELSE "returned"

LoopPc(count) == IF count < batch_size THEN "probe" ELSE "returned"

\* the workers of `started`, each started by main(); the queue holds any
\* number of messages.
\* constructed: the scanner of the first run is built already (accelerator
\* mode, bucket found, model loaded); otherwise main() is about to build it
BatchInit(nruns, nmsgs, constructed, started) ==
    /\ max_runs = nruns
    /\ max_msgs = nmsgs
    /\ batch_size \in 1..nmsgs
    /\ s3_prefix \in (IF constructed THEN {DEFAULT_S3_PREFIX} ELSE Prefixes)
    /\ use_gpu \in (IF constructed THEN {TRUE} ELSE BOOLEAN)
    /\ bucket \in (IF constructed THEN {"present"} ELSE {"present", "absent"})
    /\ whisperx_model = [w \in Workers |->
                           IF constructed /\ w \in started THEN "loaded" ELSE "unset"]
    /\ \E n \in 0..nmsgs : qstate = [m \in Msgs |-> IF m <= n THEN "visible" ELSE "unsent"]
    /\ body = [m \in Msgs |-> Unread]
    /\ store_results = {}
    /\ store_transcripts = {}
    /\ pc = [w \in Workers |-> IF w \notin started THEN "off"
                               ELSE IF constructed THEN LoopPc(0) ELSE "construct"]
    /\ processed_count = [w \in Workers |-> 0]
    /\ batch_results = [w \in Workers |-> <<>>]
    /\ youtube_url = [w \in Workers |-> "unset"]
    /\ cur = [w \in Workers |-> 0]
    /\ video_id = [w \in Workers |-> 0]
    /\ nseg = [w \in Workers |-> 0]
    /\ seg = [w \in Workers |-> 0]
    /\ log = [w \in Workers |-> <<>>]
    /\ hist = [m \in Msgs |-> <<>>]
    /\ faults = 0
    /\ runs = 1

Visible == {m \in Msgs : qstate[m] = "visible"}

Min(S) == CHOOSE x \in S : \A y \in S : x <= y

\* the messages a receive may hand out: any visible one (unread messages are
\* alike, so the first of them stands for all)
Deliverable ==
    {m \in Visible : body[m] # Unread} \cup
    (IF \E m \in Visible : body[m] = Unread
     THEN {Min({m \in Visible : body[m] = Unread})} ELSE {})

\* the environment may fail MaxFaults times in a behaviour of one worker,
\* and once less where several workers run at the same time
CanFail == faults < (IF Alone THEN MaxFaults ELSE MaxFaults - 1)

Logged(w, entries) == log' = [log EXCEPT ![w] = @ \o entries]
Did(m, what)       == hist' = [hist EXCEPT ![m] = Append(@, what)]

\* a queue client whose failure is raised to the caller of process_batch
NoItemRaise(w, entries) ==
    /\ youtube_url' = [youtube_url EXCEPT ![w] = "None"]
    /\ Logged(w, entries)
    /\ pc' = [pc EXCEPT ![w] = "raised"]

\* _get_video_from_queue returns (None, None); process_batch logs and breaks
NoItem(w, entries) ==
    /\ youtube_url' = [youtube_url EXCEPT ![w] = "None"]
    /\ Logged(w, entries \o << <<"no_more", -1>> >>)
    /\ pc' = [pc EXCEPT ![w] = "returned"]

\* YouTubePhraseScanner.__init__: ensure_bucket_exists, then the model;
\* main() then calls process_batch
Construct(w) ==
    /\ pc[w] = "construct"
    /\ \/ \* head_bucket finds the bucket, or answers 404 and create_bucket works
          /\ bucket' = "present"
          /\ Logged(w, << <<(IF bucket = "present" THEN "bucket_exists"
                                                    ELSE "bucket_created"), -1>> >>)
          /\ IF use_gpu
             THEN \/ \* whisperx.load_model returns
                     /\ whisperx_model' = [whisperx_model EXCEPT ![w] = "loaded"]
                     /\ pc' = [pc EXCEPT ![w] = LoopPc(0)]
                     /\ UNCHANGED faults
                  \/ \* the import or load_model raises: logged, raised again
                     /\ CanFail
                     /\ faults' = faults + 1
                     /\ whisperx_model' = [whisperx_model EXCEPT ![w] = "None"]
                     /\ pc' = [pc EXCEPT ![w] = "init_raised"]
             ELSE \* `if use_gpu:` is skipped, the model stays None
                  /\ whisperx_model' = [whisperx_model EXCEPT ![w] = "None"]
                  /\ pc' = [pc EXCEPT ![w] = LoopPc(0)]
                  /\ UNCHANGED faults
       \/ \* head_bucket fails otherwise, or create_bucket raises
          /\ CanFail
          /\ faults' = faults + 1
          /\ Logged(w, << <<"bucket_error", -1>> >>)
          /\ pc' = [pc EXCEPT ![w] = "init_raised"]
          /\ UNCHANGED <<bucket, whisperx_model>>
    /\ UNCHANGED <<batch_size, s3_prefix, max_runs, max_msgs, use_gpu, queueVars, storeVars,
                   processed_count, batch_results, youtube_url, cur, video_id,
                   nseg, seg, hist, runs>>

\* a queue client that logs an empty probe and calls receive_message all the same
ProbeThenReceive(w) ==
    /\ pc[w] = "probe"
    /\ Logged(w, IF Visible = {} THEN << <<"queue_empty", -1>> >> ELSE <<>>)
    /\ pc' = [pc EXCEPT ![w] = "receive"]
    /\ UNCHANGED <<configVars, queueVars, storeVars, processed_count, batch_results,
                   youtube_url, cur, video_id, nseg, seg, hist, faults, runs>>

\* sqs.get_queue_attributes and the test of the depth it reports
ProbeQueue(w) ==
    /\ pc[w] = "probe"
    /\ \/ \* the depth is reported as '0'; a non-empty queue may report it too
          /\ Visible = {} \/ CanFail
          /\ faults' = IF Visible = {} THEN faults ELSE faults + 1
          /\ NoItem(w, << <<"queue_empty", -1>> >>)
          /\ cur' = [cur EXCEPT ![w] = 0]
       \/ \* the depth is reported as non-zero; an empty queue may report it too
          /\ Visible # {} \/ CanFail
          /\ faults' = IF Visible # {} THEN faults ELSE faults + 1
          /\ pc' = [pc EXCEPT ![w] = "receive"]
          /\ UNCHANGED <<youtube_url, log, cur>>
       \/ \* the call raises
          /\ CanFail
          /\ faults' = faults + 1
          /\ NoItem(w, << <<"sqs_error", -1>> >>)
          /\ cur' = [cur EXCEPT ![w] = 0]
    /\ UNCHANGED <<configVars, queueVars, storeVars, processed_count, batch_results,
                   video_id, nseg, seg, hist, runs>>

\* sqs.receive_message, and json.loads of the body of the message received
ReceiveMessage(w) ==
    /\ pc[w] = "receive"
    /\ \/ \* no message in the response; a non-empty queue may answer so too
          /\ Visible = {} \/ CanFail
          /\ faults' = IF Visible = {} THEN faults ELSE faults + 1
          /\ NoItem(w, << <<"no_messages", -1>> >>)
          /\ cur' = [cur EXCEPT ![w] = 0]
          /\ UNCHANGED <<queueVars, hist>>
       \/ \* the call raises
          /\ CanFail
          /\ faults' = faults + 1
          /\ NoItem(w, << <<"sqs_error", -1>> >>)
          /\ cur' = [cur EXCEPT ![w] = 0]
          /\ UNCHANGED <<queueVars, hist>>
       \/ \* a message is received: it is hidden for the visibility timeout
          \E m \in Deliverable :
          \E b \in (IF body[m] = Unread THEN NewBodies ELSE {body[m]}) :
             /\ qstate' = [qstate EXCEPT ![m] = "inflight"]
             /\ body' = [body EXCEPT ![m] = b]
             /\ cur' = [cur EXCEPT ![w] = m]
             /\ UNCHANGED faults
             /\ IF b.kind = "notjson"
                THEN /\ Did(m, "receive")
                     /\ NoItem(w, << <<"json_error", -1>> >>)
                ELSE /\ hist' = [hist EXCEPT ![m] = @ \o <<"receive", "parse">>]
                     /\ pc' = [pc EXCEPT ![w] = "delete"]
                     /\ UNCHANGED <<youtube_url, log>>
    /\ UNCHANGED <<configVars, storeVars, processed_count, batch_results,
                   video_id, nseg, seg, runs>>

\* what _get_video_from_queue and the head of the loop body do once the
\* message is deleted: the lookups in the body, _extract_video_id
AfterDelete(w, m) ==
    LET b == body[m] IN
    CASE b.kind = "nourl" ->
           /\ NoItem(w, << <<"no_url", -1>> >>)
           /\ UNCHANGED video_id
      [] b.kind = "scalar" ->
           /\ NoItem(w, << <<"sqs_error", -1>> >>)
           /\ UNCHANGED video_id
      [] b.kind = "falsy" ->
           /\ youtube_url' = [youtube_url EXCEPT ![w] = "empty"]
           /\ Logged(w, << <<"processing_message", -1>>, <<"no_more", -1>> >>)
           /\ pc' = [pc EXCEPT ![w] = "returned"]
           /\ UNCHANGED video_id
      [] b.kind = "nonstring" ->
           /\ youtube_url' = [youtube_url EXCEPT ![w] = "nonstring"]
           /\ Logged(w, << <<"processing_message", -1>> >>)
           /\ pc' = [pc EXCEPT ![w] = "raised"]
           /\ UNCHANGED video_id
      [] OTHER ->
           /\ youtube_url' = [youtube_url EXCEPT ![w] = "url"]
           /\ Logged(w, << <<"processing_message", -1>> >>)
           /\ video_id' = [video_id EXCEPT ![w] = b.vid]
           /\ pc' = [pc EXCEPT ![w] = "dedup"]

\* the message is deleted, its url is handed to process_batch, and
\* os.makedirs(video_temp_dir, exist_ok=True) raises: the call stands before
\* the try, so process_batch raises
MakeDirsRaises(w) ==
    /\ body[cur[w]].kind = "url"
    /\ CanFail
    /\ faults' = faults + 1
    /\ qstate' = [qstate EXCEPT ![cur[w]] = "deleted"]
    /\ hist' = [hist EXCEPT ![cur[w]] = @ \o <<"delete", "mkdir_fail">>]
    /\ youtube_url' = [youtube_url EXCEPT ![w] = "url"]
    /\ Logged(w, << <<"processing_message", -1>> >>)
    /\ video_id' = [video_id EXCEPT ![w] = body[cur[w]].vid]
    /\ pc' = [pc EXCEPT ![w] = "raised"]

\* a worker that does not call delete_message before it goes on
DeleteMessageLater(w) ==
    /\ pc[w] = "delete"
    /\ AfterDelete(w, cur[w])
    /\ UNCHANGED <<configVars, queueVars, storeVars, processed_count, batch_results,
                   cur, nseg, seg, hist, faults, runs>>

\* sqs.delete_message, then the rest of _get_video_from_queue
DeleteMessage(w) ==
    /\ pc[w] = "delete"
    /\ \/ \* the call raises: the message stays in flight
          /\ CanFail
          /\ faults' = faults + 1
          /\ Did(cur[w], "delete_fail")
          /\ NoItem(w, << <<"sqs_error", -1>> >>)
          /\ UNCHANGED <<qstate, video_id>>
       \/ /\ qstate' = [qstate EXCEPT ![cur[w]] = "deleted"]
          /\ Did(cur[w], "delete")
          /\ AfterDelete(w, cur[w])
          /\ UNCHANGED faults
       \/ MakeDirsRaises(w)
    /\ UNCHANGED <<configVars, body, storeVars, processed_count, batch_results,
                   cur, nseg, seg, runs>>

\* a result object of _save_results_to_s3 lies under results/{video_id}/ (a
\* fallback id is new each time it is made: nothing lies under it)
StoreHasResult(v) == v # 0 /\ \E r \in store_results : r[1] = v

\* a dedup gate that treats a failed check as 'already processed'
ResultsExistFailClosed(v, failed) == failed \/ StoreHasResult(v)

\* a check that never finds anything
ResultsExistNever(v, failed) == FALSE

\* the keys list_objects_v2 finds under the prefix results/{video_id}/: the
\* objects of _save_results_to_s3, results/{video_id}/{timestamp}-results.json,
\* and those of _upload_transcription_to_s3, {s3_prefix}/{video_id}/{segment}
\* (which is called with the url and derives the id from it once more)
ListedUnderResults(v) ==
    \/ StoreHasResult(v)
    \/ /\ v # 0
       /\ s3_prefix = DEFAULT_RESULTS_PREFIX
       /\ \E t \in store_transcripts : t[1] = v

\* results_exist_in_s3: the listing of results/{video_id}/ has a 'Contents';
\* False when the listing raises
ResultsExistInS3(v, failed) == IF failed THEN FALSE ELSE ListedUnderResults(v)

\* an except clause that counts the failed item as processed
FailItemAndCount(w) ==
    /\ Logged(w, << <<"error", video_id[w]>> >>)
    /\ processed_count' = [processed_count EXCEPT ![w] = @ + 1]
    /\ pc' = [pc EXCEPT ![w] = LoopPc(processed_count[w] + 1)]
    /\ UNCHANGED queueVars

\* an except clause that hands the failed item back to the queue
FailItemAndRequeue(w) ==
    /\ Logged(w, << <<"error", video_id[w]>> >>)
    /\ pc' = [pc EXCEPT ![w] = LoopPc(processed_count[w])]
    /\ qstate' = [qstate EXCEPT ![cur[w]] = "visible"]
    /\ UNCHANGED <<processed_count, body>>

\* the except clause of process_batch: log the error, go on with the loop;
\* nothing is sent back to the queue, nothing is counted
FailItem(w) ==
    /\ Logged(w, << <<"error", video_id[w]>> >>)
    /\ pc' = [pc EXCEPT ![w] = LoopPc(processed_count[w])]
    /\ UNCHANGED <<processed_count, queueVars>>

\* the dedup gate of process_batch
DedupCheck(w) ==
    /\ pc[w] = "dedup"
    /\ \E failed \in BOOLEAN :
         /\ failed => CanFail
         /\ faults' = IF failed THEN faults + 1 ELSE faults
         /\ IF ResultsExistInS3(video_id[w], failed)
            THEN /\ Did(cur[w], "skip")
                 /\ Logged(w, << <<"skip", video_id[w]>> >>)
                 /\ pc' = [pc EXCEPT ![w] = LoopPc(processed_count[w])]
            ELSE /\ Did(cur[w], IF failed THEN "dedup_error" ELSE "dedup")
                 /\ Logged(w, (IF failed THEN << <<"exists_error", -1>> >> ELSE <<>>)
                              \o << <<"processing", video_id[w]>> >>)
                 /\ pc' = [pc EXCEPT ![w] = "download"]
    /\ UNCHANGED <<configVars, queueVars, storeVars, processed_count, batch_results,
                   youtube_url, cur, video_id, nseg, seg, runs>>

\* an external step of _process_single_video that either works or raises
ExternalStep(w, at, next) ==
    /\ pc[w] = at
    /\ \/ /\ Did(cur[w], at)
          /\ pc' = [pc EXCEPT ![w] = next]
          /\ UNCHANGED <<faults, log, processed_count, queueVars>>
       \/ /\ CanFail
          /\ faults' = faults + 1
          /\ Did(cur[w], at \o "_fail")
          /\ FailItem(w)
    /\ UNCHANGED <<configVars, storeVars, batch_results,
                   youtube_url, cur, video_id, nseg, seg, runs>>

\* _download_audio
Download(w) == ExternalStep(w, "download", "convert")

\* _convert_to_wav
Convert(w) == ExternalStep(w, "convert", "split")

RECURSIVE PlanFixed(_, _, _)
PlanFixed(start, total, segdur) ==
    IF start < total
    THEN <<start>> \o PlanFixed(start + FixedStep(segdur, 0), total, segdur)
    ELSE <<>>

\* _split_audio: ffprobe gives the duration, ffmpeg cuts the segments
Split(w) ==
    /\ pc[w] = "split"
    /\ \/ \E d \in Durations :
            LET n == Len(PlanFixed(0, d, DefaultSegmentDuration)) IN
            /\ nseg' = [nseg EXCEPT ![w] = n]
            /\ seg' = [seg EXCEPT ![w] = 0]
            /\ Did(cur[w], "split")
            /\ pc' = [pc EXCEPT ![w] = IF n > 0 THEN "transcribe" ELSE "save"]
            /\ UNCHANGED <<faults, log, processed_count, queueVars>>
       \/ /\ CanFail
          /\ faults' = faults + 1
          /\ Did(cur[w], "split_fail")
          /\ FailItem(w)
          /\ UNCHANGED <<nseg, seg>>
    /\ UNCHANGED <<configVars, storeVars, batch_results,
                   youtube_url, cur, video_id, runs>>

\* _transcribe_segment and the write of the segment's .txt file; with
\* self.whisperx_model None the call self.whisperx_model.transcribe raises
Transcribe(w) ==
    IF whisperx_model[w] = "loaded"
    THEN ExternalStep(w, "transcribe", "upload")
    ELSE /\ pc[w] = "transcribe"
         /\ Did(cur[w], "transcribe_fail")
         /\ FailItem(w)
         /\ UNCHANGED <<configVars, storeVars, batch_results, youtube_url, cur,
                        video_id, nseg, seg, runs, faults>>

\* a worker that keeps the transcripts on its disk and uploads none of them
\* while the segments are transcribed
UploadDeferred(w) ==
    /\ pc[w] = "upload"
    /\ Did(cur[w], "upload")
    /\ seg' = [seg EXCEPT ![w] = @ + 1]
    /\ pc' = [pc EXCEPT ![w] = IF seg[w] + 1 < nseg[w] THEN "transcribe" ELSE "save"]
    /\ UNCHANGED <<configVars, queueVars, storeVars, processed_count, batch_results,
                   youtube_url, cur, video_id, nseg, faults, log, runs>>

\* an upload whose failure abandons the item
UploadAborting(w) ==
    /\ pc[w] = "upload"
    /\ \/ /\ store_transcripts' = store_transcripts \cup {<<video_id[w], seg[w]>>}
          /\ Did(cur[w], "upload")
          /\ seg' = [seg EXCEPT ![w] = @ + 1]
          /\ pc' = [pc EXCEPT ![w] = IF seg[w] + 1 < nseg[w] THEN "transcribe" ELSE "save"]
          /\ UNCHANGED <<faults, log, processed_count, queueVars>>
       \/ /\ CanFail
          /\ faults' = faults + 1
          /\ Did(cur[w], "upload_fail")
          /\ FailItem(w)
          /\ UNCHANGED <<store_transcripts, seg>>
    /\ UNCHANGED <<configVars, store_results, batch_results,
                   youtube_url, cur, video_id, nseg, runs>>

\* _upload_transcription_to_s3, then the next round of the segment loop
Upload(w) ==
    /\ pc[w] = "upload"
    /\ \/ /\ store_transcripts' = store_transcripts \cup {<<video_id[w], seg[w]>>}
          /\ Did(cur[w], "upload")
          /\ UNCHANGED <<faults, log>>
       \/ /\ CanFail
          /\ faults' = faults + 1
          /\ Did(cur[w], "upload_fail")
          /\ Logged(w, << <<"upload_error", -1>> >>)
          /\ UNCHANGED store_transcripts
    /\ seg' = [seg EXCEPT ![w] = @ + 1]
    /\ pc' = [pc EXCEPT ![w] = IF seg[w] + 1 < nseg[w] THEN "transcribe" ELSE "save"]
    /\ UNCHANGED <<configVars, queueVars, store_results, processed_count, batch_results,
                   youtube_url, cur, video_id, nseg, runs>>

Max(S) == CHOOSE x \in S : \A y \in S : y <= x

\* datetime.now().strftime("%Y%m%d-%H%M%S"): the second of the wall clock.
\* The clock never runs backwards; it is in a new second unless the latest
\* object was written by another worker, in which case it may still be in
\* that object's second.
LatestSecond == IF store_results = {} THEN 0 ELSE Max({r[3] : r \in store_results})
Timestamps(w) ==
    {LatestSecond + 1} \cup
    {r[3] : r \in {q \in store_results :
                     q[3] = LatestSecond /\ q[4] # w /\ q[1] = video_id[w] /\ q[1] # 0}}

\* s3.put_object(Key = results/{video_id}/{timestamp}-results.json): an object
\* already under the key is replaced
PutObject(v, m, t, w) ==
    {r \in store_results : ~(r[1] = v /\ r[3] = t /\ v # 0)} \cup {<<v, m, t, w>>}

\* phrase = body.get('phrase', None)
GetPhrase(b) == IF b.phrase = "absent" THEN "None" ELSE b.phrase

\* a worker that scans every video for its own phrase
CurrentPhraseDefault(m) == "default"

\* current_phrase = custom_phrase if custom_phrase else self.phrase
\* ("default" stands for self.phrase)
CurrentPhrase(m) ==
    LET custom_phrase == GetPhrase(body[m])
    IN  IF custom_phrase \notin {"None", ""} THEN custom_phrase ELSE "default"

Result(w) == [video_id |-> video_id[w], msg |-> cur[w], phrase |-> CurrentPhrase(cur[w])]

\* _scan_transcripts, the result's metadata, _save_results_to_s3, and the
\* end of the loop body
SaveResults(w) ==
    /\ pc[w] = "save"
    /\ \/ \* _scan_transcripts raises
          /\ CanFail
          /\ faults' = faults + 1
          /\ Did(cur[w], "scan_fail")
          /\ FailItem(w)
          /\ UNCHANGED <<store_results, batch_results>>
       \/ /\ \/ /\ \E t \in Timestamps(w) :
                      store_results' = PutObject(video_id[w], cur[w], t, w)
                /\ Did(cur[w], "save")
                /\ Logged(w, << <<"saved", video_id[w]>> >>)
                /\ UNCHANGED faults
             \/ \* the put raises inside _save_results_to_s3, which logs it
                /\ CanFail
                /\ faults' = faults + 1
                /\ Did(cur[w], "save_fail")
                /\ Logged(w, << <<"save_error", -1>> >>)
                /\ UNCHANGED store_results
          /\ batch_results' = [batch_results EXCEPT ![w] = Append(@, Result(w))]
          /\ processed_count' = [processed_count EXCEPT ![w] = @ + 1]
          /\ pc' = [pc EXCEPT ![w] = LoopPc(processed_count[w] + 1)]
          /\ UNCHANGED queueVars
    /\ UNCHANGED <<configVars, store_transcripts,
                   youtube_url, cur, video_id, nseg, seg, runs>>

\* main() after process_batch has returned: "Processed {len(batch_results)}
\* videos", then for each result its video id with its statistics
BatchSummary(results) ==
    << <<"processed", Len(results)>> >> \o
    [i \in 1..Len(results) |-> <<"video", results[i].video_id>>]

Running == {"probe", "receive", "delete", "dedup", "download", "convert", "split",
            "transcribe", "upload", "save"}
Ended   == {"returned", "raised", "crashed"}

\* the worker process dies (killed, out of memory, power): what it held in
\* memory is gone, what it logged stays
Crash(w) ==
    /\ pc[w] \in Running
    /\ CanFail
    /\ faults' = faults + 1
    /\ pc' = [pc EXCEPT ![w] = "crashed"]
    /\ processed_count' = [processed_count EXCEPT ![w] = 0]
    /\ batch_results' = [batch_results EXCEPT ![w] = <<>>]
    /\ youtube_url' = [youtube_url EXCEPT ![w] = "unset"]
    /\ cur' = [cur EXCEPT ![w] = 0]
    /\ video_id' = [video_id EXCEPT ![w] = 0]
    /\ nseg' = [nseg EXCEPT ![w] = 0]
    /\ seg' = [seg EXCEPT ![w] = 0]
    /\ UNCHANGED <<configVars, queueVars, storeVars, log, hist, runs>>

\* main() is run again: a new scanner, a new process_batch
StartRun(w) ==
    /\ pc[w] \in Ended
    /\ runs < max_runs
    /\ runs' = runs + 1
    /\ pc' = [pc EXCEPT ![w] = LoopPc(0)]
    /\ processed_count' = [processed_count EXCEPT ![w] = 0]
    /\ batch_results' = [batch_results EXCEPT ![w] = <<>>]
    /\ youtube_url' = [youtube_url EXCEPT ![w] = "unset"]
    /\ cur' = [cur EXCEPT ![w] = 0]
    /\ video_id' = [video_id EXCEPT ![w] = 0]
    /\ nseg' = [nseg EXCEPT ![w] = 0]
    /\ seg' = [seg EXCEPT ![w] = 0]
    /\ log' = [log EXCEPT ![w] = <<>>]
    /\ UNCHANGED <<configVars, queueVars, storeVars, hist, faults>>

\* the steps that read the queue; a change of the queue made by others
\* commutes with every other step of a worker, so it is placed before these
ReadsQueue == \E w \in Workers : pc[w] \in {"probe", "receive"}

\* SQS: the visibility timeout of a received message runs out
VisibilityTimeout(m) ==
    /\ qstate[m] = "inflight"
    /\ ReadsQueue
    /\ qstate' = [qstate EXCEPT ![m] = "visible"]
    /\ UNCHANGED <<configVars, body, storeVars, localVars, hist, faults, runs>>

\* send-video-to-sqs-queue.py, or any other producer: sqs.send_message
SendMessage ==
    /\ \E m \in 1..max_msgs : qstate[m] = "unsent"
    /\ ReadsQueue
    /\ qstate' = [qstate EXCEPT ![Min({m \in Msgs : qstate[m] = "unsent"})] = "visible"]
    /\ UNCHANGED <<configVars, body, storeVars, localVars, hist, faults, runs>>

-----------------------------------------------------------------------------
vars == <<planVars, trVars, scanVars, batchVars>>

InitPlan == PlanInit /\ TrIdle /\ ScanIdle /\ BatchIdle
PlanNext == \/ PlanIter /\ UNCHANGED <<trVars, scanVars, batchVars>>
            \/ PlanReturn /\ UNCHANGED <<trVars, scanVars, batchVars>>
SpecPlan == InitPlan /\ [][PlanNext]_vars

InitTranscribe == TrInit /\ PlanIdle /\ ScanIdle /\ BatchIdle
TrNext == \/ \E o \in ProviderOutcomes : TrAttempt(o) /\ UNCHANGED <<planVars, scanVars, batchVars>>
          \/ TrExhausted /\ UNCHANGED <<planVars, scanVars, batchVars>>
SpecTranscribe == InitTranscribe /\ [][TrNext]_vars

InitScan == ScanInit /\ PlanIdle /\ TrIdle /\ BatchIdle
ScanNext == \/ ScanFile /\ UNCHANGED <<planVars, trVars, batchVars>>
            \/ ScanReturn /\ UNCHANGED <<planVars, trVars, batchVars>>
SpecScan == InitScan /\ [][ScanNext]_vars

\* one video from the split to the scan
InitVideo == VideoInit /\ ScanIdle /\ TrIdle /\ BatchIdle
VideoNext == \/ PlanIter /\ UNCHANGED <<trVars, scanVars, batchVars>>
             \/ PlanReturn /\ UNCHANGED <<trVars, scanVars, batchVars>>
             \/ VideoScan /\ UNCHANGED <<planVars, trVars, batchVars>>
             \/ ScanFile /\ UNCHANGED <<planVars, trVars, batchVars>>
             \/ ScanReturn /\ UNCHANGED <<planVars, trVars, batchVars>>
SpecVideo == InitVideo /\ [][VideoNext]_vars

\* one run of one worker
Init == BatchInit(1, MaxMsgs, TRUE, {"w1"}) /\ PlanIdle /\ TrIdle /\ ScanIdle
Next == \/ \E w \in Workers : ProbeQueue(w) /\ UNCHANGED <<planVars, trVars, scanVars>>
        \/ \E w \in Workers : ReceiveMessage(w) /\ UNCHANGED <<planVars, trVars, scanVars>>
        \/ \E w \in Workers : DeleteMessage(w) /\ UNCHANGED <<planVars, trVars, scanVars>>
        \/ \E w \in Workers : DedupCheck(w) /\ UNCHANGED <<planVars, trVars, scanVars>>
        \/ \E w \in Workers : Download(w) /\ UNCHANGED <<planVars, trVars, scanVars>>
        \/ \E w \in Workers : Convert(w) /\ UNCHANGED <<planVars, trVars, scanVars>>
        \/ \E w \in Workers : Split(w) /\ UNCHANGED <<planVars, trVars, scanVars>>
        \/ \E w \in Workers : Transcribe(w) /\ UNCHANGED <<planVars, trVars, scanVars>>
        \/ \E w \in Workers : Upload(w) /\ UNCHANGED <<planVars, trVars, scanVars>>
        \/ \E w \in Workers : SaveResults(w) /\ UNCHANGED <<planVars, trVars, scanVars>>
        \/ \E w \in Workers : Crash(w) /\ UNCHANGED <<planVars, trVars, scanVars>>
        \/ SendMessage /\ UNCHANGED <<planVars, trVars, scanVars>>
Spec == Init /\ [][Next]_vars

\* one run of one worker on a queue that nobody else writes to: no producer,
\* no crash; every external call returns or fails.  The worker is a sequential
\* process that always takes its next step: weak fairness of its steps.
InitTermination == BatchInit(1, MaxMsgs, TRUE, {"w1"}) /\ PlanIdle /\ TrIdle /\ ScanIdle
NextTermination == \/ \E w \in Workers : ProbeQueue(w) /\ UNCHANGED <<planVars, trVars, scanVars>>
                   \/ \E w \in Workers : ReceiveMessage(w) /\ UNCHANGED <<planVars, trVars, scanVars>>
                   \/ \E w \in Workers : DeleteMessage(w) /\ UNCHANGED <<planVars, trVars, scanVars>>
                   \/ \E w \in Workers : DedupCheck(w) /\ UNCHANGED <<planVars, trVars, scanVars>>
                   \/ \E w \in Workers : Download(w) /\ UNCHANGED <<planVars, trVars, scanVars>>
                   \/ \E w \in Workers : Convert(w) /\ UNCHANGED <<planVars, trVars, scanVars>>
                   \/ \E w \in Workers : Split(w) /\ UNCHANGED <<planVars, trVars, scanVars>>
                   \/ \E w \in Workers : Transcribe(w) /\ UNCHANGED <<planVars, trVars, scanVars>>
                   \/ \E w \in Workers : Upload(w) /\ UNCHANGED <<planVars, trVars, scanVars>>
                   \/ \E w \in Workers : SaveResults(w) /\ UNCHANGED <<planVars, trVars, scanVars>>
SpecTermination == InitTermination /\ [][NextTermination]_vars /\ WF_vars(NextTermination)

\* several runs of one worker, one after the other, on the same queue and bucket
InitRuns == BatchInit(MaxRuns, MaxMsgs - 1, TRUE, {"w1"}) /\ PlanIdle /\ TrIdle /\ ScanIdle
NextRuns == \/ \E w \in Workers : ProbeQueue(w) /\ UNCHANGED <<planVars, trVars, scanVars>>
            \/ \E w \in Workers : ReceiveMessage(w) /\ UNCHANGED <<planVars, trVars, scanVars>>
            \/ \E w \in Workers : DeleteMessage(w) /\ UNCHANGED <<planVars, trVars, scanVars>>
            \/ \E w \in Workers : DedupCheck(w) /\ UNCHANGED <<planVars, trVars, scanVars>>
            \/ \E w \in Workers : Download(w) /\ UNCHANGED <<planVars, trVars, scanVars>>
            \/ \E w \in Workers : Convert(w) /\ UNCHANGED <<planVars, trVars, scanVars>>
            \/ \E w \in Workers : Split(w) /\ UNCHANGED <<planVars, trVars, scanVars>>
            \/ \E w \in Workers : Transcribe(w) /\ UNCHANGED <<planVars, trVars, scanVars>>
            \/ \E w \in Workers : Upload(w) /\ UNCHANGED <<planVars, trVars, scanVars>>
            \/ \E w \in Workers : SaveResults(w) /\ UNCHANGED <<planVars, trVars, scanVars>>
            \/ \E w \in Workers : Crash(w) /\ UNCHANGED <<planVars, trVars, scanVars>>
            \/ \E w \in Workers : StartRun(w) /\ UNCHANGED <<planVars, trVars, scanVars>>
            \/ \E m \in Msgs : VisibilityTimeout(m) /\ UNCHANGED <<planVars, trVars, scanVars>>
            \/ SendMessage /\ UNCHANGED <<planVars, trVars, scanVars>>
SpecRuns == InitRuns /\ [][NextRuns]_vars

\* The steps of _process_single_video between the dedup check and the save
\* touch nothing another worker reads (transcripts are only ever added), so
\* they commute with every step of the other workers: with several workers
\* the worker that stands at such a step takes it before anyone else moves.
LocalSteps == {"download", "convert", "split", "transcribe", "upload"}
NoneLocal == \A u \in Workers : pc[u] \notin LocalSteps
Turn(w) == \A u \in Workers \ {w} : pc[u] \notin LocalSteps

\* several workers, one run each, at the same time on the same queue and
\* bucket, with one message for each of them
InitWorkers == BatchInit(1, Cardinality(Workers), TRUE, Workers) /\ PlanIdle /\ TrIdle /\ ScanIdle
NextWorkers == \/ \E w \in Workers : Turn(w) /\ ProbeQueue(w) /\ UNCHANGED <<planVars, trVars, scanVars>>
               \/ \E w \in Workers : Turn(w) /\ ReceiveMessage(w) /\ UNCHANGED <<planVars, trVars, scanVars>>
               \/ \E w \in Workers : Turn(w) /\ DeleteMessage(w) /\ UNCHANGED <<planVars, trVars, scanVars>>
               \/ \E w \in Workers : Turn(w) /\ DedupCheck(w) /\ UNCHANGED <<planVars, trVars, scanVars>>
               \/ \E w \in Workers : Turn(w) /\ Download(w) /\ UNCHANGED <<planVars, trVars, scanVars>>
               \/ \E w \in Workers : Turn(w) /\ Convert(w) /\ UNCHANGED <<planVars, trVars, scanVars>>
               \/ \E w \in Workers : Turn(w) /\ Split(w) /\ UNCHANGED <<planVars, trVars, scanVars>>
               \/ \E w \in Workers : Turn(w) /\ Transcribe(w) /\ UNCHANGED <<planVars, trVars, scanVars>>
               \/ \E w \in Workers : Turn(w) /\ Upload(w) /\ UNCHANGED <<planVars, trVars, scanVars>>
               \/ \E w \in Workers : Turn(w) /\ SaveResults(w) /\ UNCHANGED <<planVars, trVars, scanVars>>
               \/ \E m \in Msgs : NoneLocal /\ VisibilityTimeout(m) /\ UNCHANGED <<planVars, trVars, scanVars>>
               \/ NoneLocal /\ SendMessage /\ UNCHANGED <<planVars, trVars, scanVars>>
SpecWorkers == InitWorkers /\ [][NextWorkers]_vars

\* main(): the construction of the scanner, then one run
InitStartup == BatchInit(1, MaxMsgs - 1, FALSE, {"w1"}) /\ PlanIdle /\ TrIdle /\ ScanIdle
NextStartup == \/ \E w \in Workers : Construct(w) /\ UNCHANGED <<planVars, trVars, scanVars>>
               \/ \E w \in Workers : ProbeQueue(w) /\ UNCHANGED <<planVars, trVars, scanVars>>
               \/ \E w \in Workers : ReceiveMessage(w) /\ UNCHANGED <<planVars, trVars, scanVars>>
               \/ \E w \in Workers : DeleteMessage(w) /\ UNCHANGED <<planVars, trVars, scanVars>>
               \/ \E w \in Workers : DedupCheck(w) /\ UNCHANGED <<planVars, trVars, scanVars>>
               \/ \E w \in Workers : Download(w) /\ UNCHANGED <<planVars, trVars, scanVars>>
               \/ \E w \in Workers : Convert(w) /\ UNCHANGED <<planVars, trVars, scanVars>>
               \/ \E w \in Workers : Split(w) /\ UNCHANGED <<planVars, trVars, scanVars>>
               \/ \E w \in Workers : Transcribe(w) /\ UNCHANGED <<planVars, trVars, scanVars>>
               \/ \E w \in Workers : Upload(w) /\ UNCHANGED <<planVars, trVars, scanVars>>
               \/ \E w \in Workers : SaveResults(w) /\ UNCHANGED <<planVars, trVars, scanVars>>
               \/ \E w \in Workers : Crash(w) /\ UNCHANGED <<planVars, trVars, scanVars>>
               \/ SendMessage /\ UNCHANGED <<planVars, trVars, scanVars>>
SpecStartup == InitStartup /\ [][NextStartup]_vars

-----------------------------------------------------------------------------
(* Properties of the batch worker *)

Has(m, e)   == \E i \in DOMAIN hist[m] : hist[m][i] = e
Count(m, e) == Cardinality({i \in DOMAIN hist[m] : hist[m][i] = e})
Last(q)     == q[Len(q)]

\* what is done for an item once _get_video_from_queue has handed it over
Processing == {"dedup", "dedup_error", "skip", "download", "download_fail",
               "convert", "convert_fail", "split", "split_fail",
               "transcribe", "transcribe_fail", "upload", "upload_fail",
               "scan_fail", "save", "save_fail"}
Pipeline   == Processing \ {"dedup", "dedup_error", "skip"}

ErrorsLogged(w, v) ==
    Cardinality({i \in DOMAIN log[w] : log[w][i] = <<"error", v>>})

\* the scenario of C1: the queue holds three valid items for three videos,
\* the download of the second fails and nothing else does, the batch has
\* room for all three, and the run is over
FailureScenario(w) ==
    /\ pc[w] = "returned"
    /\ batch_size >= 3
    /\ \A m \in 1..3 : body[m].kind = "url" /\ hist[m] # <<>>
    /\ Cardinality({body[m].vid : m \in 1..3}) = 3
    /\ \A m \in Msgs \ (1..3) : qstate[m] = "unsent"
    /\ faults = 1
    /\ Has(2, "download_fail")

ResultOf(m) == [video_id |-> body[m].vid, msg |-> m, phrase |-> CurrentPhrase(m)]

\* C1: with three valid items queued, the download of the second failing and
\* batch_size >= 3, the run returns exactly two results, for the first and
\* the third item in that order; the failed item is not counted, is logged
\* once as a failure, and is not received or attempted again in the run.
C1_FailureIsolation ==
    \A w \in Workers : FailureScenario(w) =>
        /\ batch_results[w] = <<ResultOf(1), ResultOf(3)>>
        /\ processed_count[w] = 2
        /\ ErrorsLogged(w, body[2].vid) = 1
        /\ \A i \in DOMAIN log[w] : log[w][i][1] = "error" => log[w][i][2] = body[2].vid
        /\ hist[2] = <<"receive", "parse", "delete", "dedup", "download_fail">>

C1_Witness ==
    /\ FailureScenario("w1")
    /\ Len(batch_results["w1"]) = 2
    /\ Has(1, "save") /\ Has(3, "save")

\* what the skip of an item is: nothing stored, nothing counted, nothing
\* added to the results, and the loop goes on to the queue
SkipEffect(w) ==
    /\ pc'[w] = "probe"
    /\ store_results' = store_results
    /\ store_transcripts' = store_transcripts
    /\ processed_count'[w] = processed_count[w]
    /\ batch_results'[w] = batch_results[w]
    /\ hist'[cur[w]] = Append(hist[cur[w]], "skip")

\* the dedup gate acts for worker w (the worker does not die at it)
DedupStep(w) == pc[w] = "dedup" /\ pc'[w] \notin {"dedup", "crashed"}

\* C2 as stated: whenever a received item's VideoId already has a result in
\* the store, process_batch downloads, converts, segments and transcribes
\* nothing for it, writes nothing to the store, leaves the processed counter
\* and the result list unchanged, and goes on to receive the next item.
C2_DedupSkipAlways ==
    [][\A w \in Workers :
         (DedupStep(w) /\ StoreHasResult(video_id[w])) => SkipEffect(w)]_vars

\* C2 (amended): whenever the existence check for a received item's VideoId
\* succeeds and finds a result in the store, process_batch downloads,
\* converts, segments and transcribes nothing for it, writes nothing to the
\* store, leaves the processed counter and the result list unchanged, and
\* goes on to receive the next item.
C2_DedupSkip ==
    /\ [][\A w \in Workers :
            (/\ DedupStep(w)
             /\ StoreHasResult(video_id[w])
             /\ Last(hist'[cur[w]]) # "dedup_error") => SkipEffect(w)]_vars
    /\ [](\A m \in Msgs : Has(m, "skip") =>
            /\ Last(hist[m]) = "skip"
            /\ \A i \in DOMAIN hist[m] : hist[m][i] \notin Pipeline)

C2_Witness ==
    \E m \in Msgs :
        /\ Has(m, "skip")
        /\ pc["w1"] = "receive"
        /\ \E r \in store_results : r[1] = body[m].vid /\ r[2] # m

\* C3: for every work item that process_batch processes, the queue message
\* was deleted after its body parsed and before the dedup check, the
\* download or any other processing step of that item began.
C3_AckBeforeProcessing ==
    /\ \A m \in Msgs : \A i \in DOMAIN hist[m] :
          hist[m][i] \in Processing =>
              \E k \in 2..(i - 1) :
                  hist[m][k - 1] = "parse" /\ hist[m][k] = "delete"
    /\ \A w \in Workers :
          pc[w] \in (Running \ {"probe", "receive", "delete"}) =>
              qstate[cur[w]] = "deleted"

C3_Witness ==
    \E m \in Msgs : Has(m, "save") /\ Has(m, "upload") /\ qstate[m] = "deleted"

\* no worker is between the receive of m and the end of that call
Settled(m) == \A w \in Workers : ~(cur[w] = m /\ pc[w] = "delete")

\* C4: a received message whose body fails to parse as JSON, or parses but
\* lacks the media-reference field, is deleted from the queue and yields
\* 'no work this call'; it is never delivered again.
C4_MalformedDiscarded ==
    \A m \in Msgs :
        (body[m].kind \in {"notjson", "nourl"} /\ faults = 0 /\ Settled(m)) =>
            /\ qstate[m] = "deleted"
            /\ Count(m, "receive") <= 1
            /\ \A w \in Workers : cur[w] = m => youtube_url[w] = "None"

\* C5: once a valid work item has been acknowledged, a failure or crash in
\* its processing leaves it absent from the queue for good: no worker
\* receives that message again.
C5_LossOnFailure ==
    \A m \in Msgs : Has(m, "delete") =>
        /\ qstate[m] = "deleted"
        /\ \A j \in DOMAIN hist[m] :
              hist[m][j] = "receive" => \A i \in 1..(j - 1) : hist[m][i] # "delete"

C5_Witness ==
    \E m \in Msgs :
        /\ body[m].kind = "url"
        /\ Has(m, "download_fail")
        /\ qstate[m] = "deleted"
        /\ runs = MaxRuns
        /\ pc["w1"] = "returned"
        /\ \E k \in Msgs : k # m /\ Has(k, "save")

\* C6: process_batch returns exactly when a receive yields no work item or
\* when the processed counter equals batch_size; it issues no receive once
\* the counter has reached batch_size; ending on an empty queue is a return.
C6_TerminalCondition ==
    \A w \in Workers :
        /\ pc[w] = "returned" <=>
              (youtube_url[w] \in NoWork \/ processed_count[w] = batch_size)
        /\ pc[w] \in {"probe", "receive", "delete"} => processed_count[w] < batch_size

C6_Witness ==
    /\ pc["w1"] = "returned"
    /\ batch_size >= 2
    /\ processed_count["w1"] = batch_size
    /\ youtube_url["w1"] = "url"

\* C12: when the transcription provider fails for a segment of an item, the
\* segment's transcript is the empty string and the item goes on to the
\* upload of that segment, its remaining segments, the scan and the persist
\* step; process_batch logs no item failure for it.
C12_TranscriptionDegrades ==
    \A m \in Msgs : Has(m, "transcribe_fail") =>
        /\ Last(hist[m]) = "transcribe_fail" =>
               \E w \in Workers : cur[w] = m /\ pc[w] = "upload"
        /\ \A w \in Workers : ErrorsLogged(w, body[m].vid) = 0

\* C13: a worker receives or acknowledges a queue message only if, at
\* construction, the bucket was found or created and the transcription model
\* was initialized; when construction raises, no message is consumed. For
\* every configuration, CPU mode included.
C13_StartupGate ==
    /\ \A w \in Workers :
          cur[w] # 0 => (bucket = "present" /\ whisperx_model[w] = "loaded")
    /\ (\E w \in Workers : pc[w] = "init_raised") =>
          \A m \in Msgs : hist[m] = <<>>

\* the result objects under results/{v}/ and the successful writes for v
ResultObjects(v) == {r \in store_results : r[1] = v}
ResultWrites(v)  == {m \in Msgs : body[m].vid = v /\ Has(m, "save")}

\* C14: every successful write of a result for a VideoId adds an object and
\* replaces none, so the number of result objects under results/{videoId}/
\* equals the number of successful result writes for that VideoId, after any
\* sequence of runs by any number of workers.
C14_SnapshotsAccumulate ==
    \A v \in SeenVids \ {0} :
        Cardinality(ResultObjects(v)) = Cardinality(ResultWrites(v))

ExistsCheckFails(w) ==
    pc[w] = "dedup" /\ pc'[w] # "crashed" /\ faults' = faults + 1

\* C16: when the store's existence check for a VideoId fails with an error,
\* the dedup gate answers 'not yet processed': the item goes on to the
\* download (the head of the full pipeline), it is not skipped, process_batch
\* logs no item failure, and the counter and the results are left alone.
C16_ExistsFailureConservative ==
    [][\A w \in Workers : ExistsCheckFails(w) =>
            /\ pc'[w] = "download"
            /\ Last(hist'[cur[w]]) = "dedup_error"
            /\ ErrorsLogged(w, video_id[w])' = ErrorsLogged(w, video_id[w])
            /\ processed_count'[w] = processed_count[w]
            /\ batch_results'[w] = batch_results[w]
            /\ qstate' = qstate]_vars

C16_Witness ==
    \E m \in Msgs :
        /\ Has(m, "dedup_error")
        /\ Has(m, "download") /\ Has(m, "save")
        /\ \E w \in Workers : Len(batch_results[w]) > 0 /\ Last(batch_results[w]).msg = m

\* C17: when the upload of a segment transcript fails, the item goes on with
\* its next segment or the scan and nothing is logged as an item failure;
\* when the put of the final result fails, the result is still appended to
\* the batch's results and the processed counter is incremented.
C17_UploadFailureTolerated ==
    [][\A w \in Workers :
         /\ (pc[w] = "upload" /\ Last(hist'[cur[w]]) = "upload_fail") =>
               /\ pc'[w] = (IF seg[w] + 1 < nseg[w] THEN "transcribe" ELSE "save")
               /\ ErrorsLogged(w, video_id[w])' = ErrorsLogged(w, video_id[w])
         /\ (pc[w] = "save" /\ Last(hist'[cur[w]]) = "save_fail") =>
               /\ batch_results'[w] = Append(batch_results[w], Result(w))
               /\ processed_count'[w] = processed_count[w] + 1
               /\ pc'[w] \in {"probe", "returned"}]_vars

C17_Witness ==
    \E m \in Msgs : \E w \in Workers :
        /\ Has(m, "upload_fail")
        /\ Has(m, "save")
        /\ batch_results[w] # <<>> /\ Last(batch_results[w]).msg = m
        /\ processed_count[w] = Len(batch_results[w])

\* a call of the queue client by worker w raises in this step
QueueCallFails(w) ==
    /\ pc[w] \in {"probe", "receive", "delete"}
    /\ faults' = faults + 1
    /\ Len(log'[w]) > Len(log[w])
    /\ log'[w][Len(log[w]) + 1] = <<"sqs_error", -1>>

\* C18: when the depth probe, the receive call or the acknowledge call fails,
\* the queue client reports 'no item', process_batch stops without calling
\* the queue again, and it returns the results accumulated so far; it does
\* not raise.
C18_QueueErrorEndsBatch ==
    [][\A w \in Workers : QueueCallFails(w) =>
            /\ youtube_url'[w] = "None"
            /\ pc'[w] = "returned"
            /\ batch_results'[w] = batch_results[w]
            /\ processed_count'[w] = processed_count[w]]_vars

C18_Witness ==
    \E w \in Workers :
        /\ pc[w] = "returned"
        /\ faults = 1
        /\ Len(batch_results[w]) = 1
        /\ processed_count[w] < batch_size
        /\ \E i \in DOMAIN log[w] : log[w][i] = <<"sqs_error", -1>>
        /\ \A m \in Msgs : body[m].kind \in {"url", "unread"}

\* C22: whatever the content of a received work item, a failure at any step
\* after it is received (the derivation of its VideoId and the creation of
\* its scratch directory included) is contained to that item: process_batch
\* does not raise.
C22_NoItemAbortsBatch ==
    \A w \in Workers : pc[w] # "raised"

\* the item of message m got as far as the dedup check, and process_batch is
\* through with it
Finished(m) ==
    /\ hist[m] # <<>>
    /\ Last(hist[m]) \in {"skip", "download_fail", "convert_fail", "split_fail",
                          "transcribe_fail", "scan_fail", "save", "save_fail"}

\* the outcomes logged with the video id v: the lines process_batch and
\* _save_results_to_s3 write for a skip, a failure and a saved result, and
\* the line of the summary for a result that was returned but not saved
OutcomeLines(w, v) ==
    Cardinality({i \in DOMAIN log[w] :
                    log[w][i] \in {<<"skip", v>>, <<"error", v>>, <<"saved", v>>}}) +
    (IF pc[w] = "returned"
     THEN Cardinality({i \in DOMAIN batch_results[w] :
                          /\ batch_results[w][i].video_id = v
                          /\ Last(hist[batch_results[w][i].msg]) = "save_fail"})
     ELSE 0)

\* once the workers have ended, each finished item has one outcome line
EveryOutcomeLogged ==
    (\A w \in Workers : pc[w] \in {"off", "returned", "raised", "crashed"}) =>
        \A v \in SeenVids :
            OutcomeLines("w1", v) + OutcomeLines("w2", v) =
                Cardinality({m \in Msgs : body[m].vid = v /\ Finished(m)})

Skipped(w) == Cardinality({i \in DOMAIN log[w] : log[w][i][1] = "skip"})

SummaryReportsCounts ==
    \A w \in Workers : pc[w] = "returned" =>
        LET summary == BatchSummary(batch_results[w]) IN
        /\ \E i \in DOMAIN summary : summary[i] = <<"processed", processed_count[w]>>
        /\ \E i \in DOMAIN summary : summary[i] = <<"skipped", Skipped(w)>>

\* C23: every work item that reaches the dedup check ends with exactly one
\* logged outcome (success, skip or failure) that carries its VideoId, and
\* the batch summary reports the number of items processed and the number
\* skipped by dedup.
C23_OutcomeReporting ==
    EveryOutcomeLogged /\ SummaryReportsCounts

\* C24 as stated: for every processed item, the phrase used for scanning and
\* recorded in its result is the phrase carried by the queue message when the
\* message has one, and the worker's configured default phrase otherwise.
C24_PhraseSelectionAlways ==
    \A w \in Workers : \A i \in DOMAIN batch_results[w] :
        LET r == batch_results[w][i] IN
        r.phrase = (IF body[r.msg].phrase # "absent" THEN body[r.msg].phrase
                                                    ELSE "default")

\* C24 (amended): for every processed item, the phrase used for scanning and
\* recorded in its result is the phrase carried by the queue message when the
\* message has one that is not empty, and the worker's configured default
\* phrase otherwise: when it has none or an empty one.
C24_PhraseSelection ==
    \A w \in Workers : \A i \in DOMAIN batch_results[w] :
        LET r == batch_results[w][i] IN
        r.phrase = (IF body[r.msg].phrase \notin {"absent", ""} THEN body[r.msg].phrase
                                                               ELSE "default")

C24_Witness ==
    \E w \in Workers :
        /\ Len(batch_results[w]) = 1
        /\ body[batch_results[w][1].msg].phrase = "custom"
        /\ batch_results[w][1].phrase = "custom"
        /\ Has(batch_results[w][1].msg, "save")

\* the steps of the segment loop taken for message m, in order
IsLoopStep(e) == e \in {"transcribe", "transcribe_fail", "upload", "upload_fail"}
IsUploadStep(e) == e \in {"upload", "upload_fail"}
LoopSteps(m) == SelectSeq(hist[m], IsLoopStep)
UploadSteps(m) == SelectSeq(hist[m], IsUploadStep)

\* worker w has split the video of the message it holds: seg[w] and nseg[w]
\* are those of that message
InLoop(w) == cur[w] # 0 /\ Has(cur[w], "split")

\* the segments are taken in index order, each once: a transcription, then
\* the upload of its transcript, then the next segment; the scan and the save
\* come after the last segment
LoopOrder(w) ==
    LET m == cur[w]
        steps == LoopSteps(m)
    IN  /\ \A i \in DOMAIN steps :
              IF i % 2 = 1 THEN steps[i] \in {"transcribe", "transcribe_fail"}
                           ELSE steps[i] \in {"upload", "upload_fail"}
        /\ \A i \in 1..(Len(steps) - 1) : steps[i] # "transcribe_fail"
        /\ Len(UploadSteps(m)) = seg[w]
        /\ seg[w] <= nseg[w]
        /\ (Has(m, "save") \/ Has(m, "save_fail") \/ Has(m, "scan_fail") \/ pc[w] = "save")
               => seg[w] = nseg[w]
        /\ (steps # <<>> /\ Last(steps) = "transcribe_fail") =>
               /\ seg[w] < nseg[w]
               /\ ~\E r \in store_results : r[2] = m

\* C25 as stated: within one item the segments are transcribed in increasing
\* index order, each once; the transcript of segment i is in the store before
\* segment i+1 is transcribed; the scan and the result write come after all
\* segments. When the item fails at segment k, the transcripts of segments
\* 0..k-1 are in the store and no result object was written.
C25_TranscribeLoopOrderAlways ==
    \A w \in Workers : InLoop(w) =>
        /\ LoopOrder(w)
        /\ \A j \in 0..(seg[w] - 1) : <<video_id[w], j>> \in store_transcripts

\* C25 (amended): within one item the segments are transcribed in increasing
\* index order, each once; the upload of the transcript of segment i is
\* attempted before segment i+1 is transcribed, and the transcript is in the
\* store from then on unless that upload failed; the scan and the result
\* write come after all segments. When the item fails at segment k, the
\* transcripts of those segments 0..k-1 whose upload did not fail are in the
\* store and no result object was written.
C25_TranscribeLoopOrder ==
    \A w \in Workers : InLoop(w) =>
        /\ LoopOrder(w)
        /\ \A j \in 0..(seg[w] - 1) :
              UploadSteps(cur[w])[j + 1] = "upload" =>
                  <<video_id[w], j>> \in store_transcripts

C25_Witness ==
    \E w \in Workers :
        /\ InLoop(w)
        /\ Last(hist[cur[w]]) = "transcribe_fail"
        /\ seg[w] = 1
        /\ <<video_id[w], 0>> \in store_transcripts
        /\ ~\E r \in store_results : r[2] = cur[w]
        /\ pc[w] = "receive"

\* C26: for every configured transcript prefix, an existence check that does
\* not fail answers 'already processed' exactly if at least one result object
\* has been persisted for the VideoId; the segment transcripts a failed or
\* crashed item left behind never make the video count as processed.
C26_DedupKeyedOnResults ==
    [][\A w \in Workers :
         (DedupStep(w) /\ Last(hist'[cur[w]]) # "dedup_error") =>
             (Last(hist'[cur[w]]) = "skip" <=> StoreHasResult(video_id[w]))]_vars

\* two workers took two messages for one video through the dedup check with
\* no result in the store, and both ran the pipeline to a successful save
BothCompleted(m, k) ==
    /\ m # k
    /\ body[m].kind = "url" /\ body[k].kind = "url"
    /\ body[m].vid = body[k].vid /\ body[m].vid # 0
    /\ Has(m, "dedup") /\ Has(k, "dedup")
    /\ Has(m, "save") /\ Has(k, "save")

\* C27: whenever two workers holding two different messages for the same
\* VideoId both pass the dedup check and both complete the pipeline, the
\* store holds a result for that VideoId from each of the two, and the
\* transcript of every segment either of them uploaded is in the store.
C27_DedupRaceLosesNothing ==
    \A m, k \in Msgs : BothCompleted(m, k) =>
        /\ \E r \in store_results : r[1] = body[m].vid /\ r[2] = m
        /\ \E r \in store_results : r[1] = body[k].vid /\ r[2] = k
        /\ \A j \in 0..(Count(m, "upload") - 1) :
              Count(m, "upload_fail") = 0 => <<body[m].vid, j>> \in store_transcripts

\* the number of times message m was handed to a process_batch: each
\* acknowledged receive of a message with a url
TimesTaken(m) == IF body[m].kind = "url" THEN Count(m, "delete") ELSE 0

\* C28: every valid queue message is taken into a processing pipeline at most
\* once in total, over all workers running at the same time against the same
\* queue; no two workers ever process the same message.
C28_SingleConsumption ==
    /\ \A m \in Msgs : TimesTaken(m) <= 1
    /\ \A w, u \in Workers :
          (w # u /\ pc[w] \in Running \ {"probe", "receive", "delete"}
                 /\ pc[u] \in Running \ {"probe", "receive", "delete"})
              => cur[w] # cur[u]

\* an iteration of the loop of process_batch ends and the loop goes on
NextIteration(w) == pc[w] \in Running \ {"probe"} /\ pc'[w] = "probe"

IterationRemovesMessage ==
    \A w \in Workers : NextIteration(w) => qstate'[cur[w]] = "deleted"

\* process_batch is over, one way or the other
BatchEnds == <>(pc["w1"] \in {"returned", "raised"})

\* C34: for a queue holding finitely many messages, with no producer adding
\* messages during the run and external calls that each return or fail,
\* process_batch eventually returns; every loop iteration that does not end
\* the batch has removed one message from the queue.
C34_BatchTermination ==
    /\ <>(pc["w1"] = "returned")
    /\ [][IterationRemovesMessage]_vars

\* C35: every result in the list returned by process_batch has a
\* corresponding result object stored under results/{videoId}/ (so that a
\* later run that receives the same VideoId skips it).
C35_ReturnedResultsPersisted ==
    \A w \in Workers : pc[w] = "returned" =>
        \A i \in DOMAIN batch_results[w] :
            ResultObjects(batch_results[w][i].video_id) # {}

\* the entry i of the history of m follows the successful delete of the same
\* delivery, or a processing step that does (so that, going back from any
\* processing step, one meets processing steps only and then the delete)
AcknowledgedBefore(m, i) ==
    i > 1 /\ hist[m][i - 1] \in Processing \cup {"delete"}

\* C36: a work item is handed to the pipeline only if the delete
\* (acknowledge) call for its message succeeded; if the delete call fails
\* after a successful parse, the item is not processed in that call and its
\* message stays in the queue.
C36_NoProcessingWithoutAck ==
    \A m \in Msgs :
        /\ \A i \in DOMAIN hist[m] :
              /\ hist[m][i] \in Processing => AcknowledgedBefore(m, i)
              /\ (hist[m][i] = "delete_fail" /\ i < Len(hist[m])) =>
                     hist[m][i + 1] = "receive"
        /\ (hist[m] # <<>> /\ Last(hist[m]) = "delete_fail") =>
              qstate[m] \in {"inflight", "visible"}

C36_Witness ==
    \E m, n \in Msgs :
        /\ Has(n, "delete") /\ Last(hist[n]) = "save"
        /\ hist[m] = <<"receive", "parse", "delete_fail">>
        /\ qstate[m] = "inflight"
        /\ pc["w1"] = "returned"

\* the processed counter agrees with the results collected and stays within
\* the batch
CounterInv ==
    \A w \in Workers :
        /\ processed_count[w] = Len(batch_results[w])
        /\ processed_count[w] <= batch_size

\* the item of w completes the persist step: _save_results_to_s3 has returned
\* (the object written, or the failure of the write logged)
CompletesPersist(w) ==
    /\ pc[w] = "save" /\ pc'[w] # "save"
    /\ hist'[cur[w]] # hist[cur[w]]
    /\ Last(hist'[cur[w]]) \in {"save", "save_fail"}

CounterStep ==
    \A w \in Workers :
        /\ processed_count'[w] > processed_count[w] =>
               (processed_count'[w] = processed_count[w] + 1 /\ CompletesPersist(w))
        /\ CompletesPersist(w) => processed_count'[w] = processed_count[w] + 1

\* C37: at every point of process_batch the processed counter equals the
\* number of results collected so far and is at most batch_size; it increases
\* by exactly one per item that completes the persist step and never
\* otherwise.
C37_CounterInvariant == [](CounterInv) /\ [][CounterStep]_vars

C37_Witness ==
    /\ pc["w1"] = "returned"
    /\ batch_size = 2
    /\ processed_count["w1"] = 2
    /\ Len(batch_results["w1"]) = 2
    /\ \E m \in Msgs : Has(m, "download_fail")

\* the messages removed from the queue so far
Removed == {m \in Msgs : Has(m, "delete")}

\* the removed messages whose item was skipped by dedup or has failed
SkippedOrFailed ==
    {m \in Removed : Finished(m) /\ Last(hist[m]) \notin {"save", "save_fail"}}

\* C33 as stated: one run of process_batch removes (acknowledges) at most
\* batch_size messages from the queue, counting the items skipped by dedup
\* and the items that fail as well as the items that succeed.
C33_BoundedConsumption == Cardinality(Removed) <= batch_size

\* C33 (amended): one run of process_batch removes at most batch_size
\* messages from the queue, not counting the items skipped by dedup and the
\* items that fail, which are removed without taking a slot of the batch.
C33_BoundedProcessing == Cardinality(Removed \ SkippedOrFailed) <= batch_size

C33_Witness ==
    /\ pc["w1"] = "returned"
    /\ processed_count["w1"] = batch_size
    /\ SkippedOrFailed # {}
    /\ Cardinality(Removed) > batch_size

\* the depth probe of worker w reports 0 in this step
ProbeReportsZero(w) ==
    /\ pc[w] = "probe"
    /\ Len(log'[w]) > Len(log[w])
    /\ log'[w][Len(log[w]) + 1] = <<"queue_empty", -1>>

\* C29: when the approximate depth probe reports 0, the queue client returns
\* 'no work' without a receive call and without acknowledging anything, and
\* the batch ends on that call: process_batch returns what it has and calls
\* the queue no more, whatever a producer enqueues afterwards.
C29_EmptyProbeShortCircuit ==
    [][\A w \in Workers :
         /\ ProbeReportsZero(w) =>
               /\ youtube_url'[w] = "None"
               /\ pc'[w] = "returned"
               /\ qstate' = qstate
               /\ hist' = hist
               /\ batch_results'[w] = batch_results[w]
         /\ pc[w] = "returned" => pc'[w] = "returned"]_vars

C29_Witness ==
    /\ pc["w1"] = "returned"
    /\ log["w1"] = << <<"queue_empty", -1>>, <<"no_more", -1>> >>
    /\ faults = 0
    /\ \E m \in Msgs : qstate[m] = "visible"
    /\ pc["w2"] = "receive"

-----------------------------------------------------------------------------
(* Properties of the transcription client *)

AllFailed == \A i \in 1..Len(outcomes) : outcomes[i] \in Failures

RECURSIVE SumSeq(_)
SumSeq(q) == IF q = <<>> THEN 0 ELSE Head(q) + SumSeq(Tail(q))

\* C7: with a retry limit R >= 1 and a provider that fails on every call,
\* transcribe makes exactly R provider calls, then returns the empty string,
\* and it never raises to its caller.
C7_RetryExhaustion ==
    /\ tr_pc # "raised"
    /\ (tr_pc = "returned" /\ retries >= 1 /\ AllFailed)
          => (Len(outcomes) = retries /\ tr_result = "")

C7_Witness ==
    /\ tr_pc = "returned" /\ retries = MaxRetries /\ AllFailed
    /\ Len(outcomes) = MaxRetries /\ tr_result = ""

\* C8: with retries=3, backoffFactor=2 and a provider that always fails,
\* transcribe sleeps only after attempts 0 and 1, never after the final
\* attempt, so the cumulative sleep before it returns is 1+2 = 3 seconds.
C8_SleepOnlyBetweenAttempts ==
    (/\ tr_pc = "returned"
     /\ retries = DefaultRetries /\ backoff_factor = DefaultBackoff
     /\ AllFailed /\ Len(outcomes) = DefaultRetries)
        => (sleeps = <<1, 2>> /\ SumSeq(sleeps) = 3)

\* the provider's first success was its answer to attempt k
FirstSuccessAt(k) ==
    /\ Len(outcomes) = k + 1
    /\ outcomes[k + 1] \notin Failures
    /\ \A i \in 1..k : outcomes[i] \in Failures

\* C30: if the provider first succeeds on attempt k (0 <= k < R), transcribe
\* returns that attempt's text after exactly k+1 provider calls, having slept
\* backoffFactor^0, ..., backoffFactor^(k-1) seconds after the k failed
\* attempts in that order, and it neither sleeps nor calls the provider after
\* the success.
C30_RetrySuccessPath ==
    \A k \in 0..(retries - 1) :
        (outcomes # <<>> /\ Len(outcomes) >= k + 1 /\ outcomes[k + 1] \notin Failures
         /\ \A i \in 1..k : outcomes[i] \in Failures) =>
            /\ FirstSuccessAt(k)
            /\ tr_pc = "returned"
            /\ tr_result = (IF outcomes[k + 1] = "ok_text" THEN "text" ELSE "")
            /\ sleeps = [i \in 1..k |-> IF i = 1 THEN 1 ELSE backoff_factor ^ (i - 1)]

C30_Witness ==
    /\ tr_pc = "returned"
    /\ retries = MaxRetries /\ backoff_factor = MaxBackoff
    /\ FirstSuccessAt(MaxRetries - 1)
    /\ outcomes[MaxRetries] = "ok_text"
    /\ tr_result = "text"
    /\ Len(sleeps) = MaxRetries - 1

\* C38: when the provider answers with a success status and a well-formed
\* body that has no text field, transcribe returns the empty string on that
\* attempt, without sleeping and without any further attempt.
C38_SuccessWithoutText ==
    \A i \in 1..Len(outcomes) : outcomes[i] = "ok_notext" =>
        /\ i = Len(outcomes)
        /\ tr_pc = "returned"
        /\ tr_result = ""
        /\ attempt = i - 1
        /\ Len(sleeps) = i - 1

C38_Witness ==
    /\ retries = MaxRetries
    /\ outcomes = <<"status", "ok_notext">>
    /\ tr_pc = "returned"
    /\ tr_result = ""
    /\ Len(sleeps) = 1

-----------------------------------------------------------------------------
(* Properties of the segment planner *)

InContract == total_duration > 0 /\ 0 <= overlap /\ overlap < segment_duration

\* C9: for totalDuration > 0 and 0 <= overlap < segmentDuration the planner
\* emits exactly ceil(totalDuration / (segmentDuration - overlap)) segments,
\* the first starting at 0, each later start equal to the previous start plus
\* (segmentDuration - overlap), and the last start below totalDuration.
C9_SegmentPlan ==
    (plan_pc = "done" /\ InContract) =>
        /\ Len(segments) = Ceil(total_duration, segment_duration - overlap)
        /\ segments[1].start = 0
        /\ \A i \in 2..Len(segments) :
              segments[i].start = segments[i-1].start + (segment_duration - overlap)
        /\ segments[Len(segments)].start < total_duration

\* C10: for overlap < segmentDuration the emitted indices are 0,1,...,n-1
\* with no gap or repeat, the starts increase strictly, and every time point
\* t with 0 <= t < totalDuration lies in a window [start, start + segmentDuration).
C10_SegmentCoverage ==
    (plan_pc = "done" /\ 0 <= overlap /\ overlap < segment_duration) =>
        /\ \A i \in 1..Len(segments) : segments[i].index = i - 1
        /\ \A i \in 2..Len(segments) : segments[i-1].start < segments[i].start
        /\ \A t \in 0..(total_duration - 1) :
              \E i \in 1..Len(segments) :
                  /\ segments[i].start <= t
                  /\ t < segments[i].start + segments[i].duration

C10_Witness ==
    /\ plan_pc = "done" /\ variant = "sliding"
    /\ overlap = 1 /\ segment_duration = 3 /\ total_duration = MaxTotal
    /\ Len(segments) >= 3

\* C32: every segment the planner emits, the last one included, requests a
\* clip of exactly segmentDuration seconds, also when start + segmentDuration
\* exceeds totalDuration.
C32_NoClamping ==
    \A i \in 1..Len(segments) : segments[i].duration = segment_duration

C32_Witness ==
    /\ plan_pc = "done"
    /\ Len(segments) >= 2
    /\ Last(segments).start + segment_duration > total_duration
    /\ Last(segments).duration = segment_duration

\* the inputs the planner's contract rules out
InvalidPlanInput ==
    overlap >= segment_duration \/ total_duration <= 0 \/ segment_duration <= 0

\* C11: a call of the planner with overlap >= segmentDuration, or with
\* totalDuration <= 0 or segmentDuration <= 0, ends with an input-validation
\* error and emits no segment: it never returns normally and never asks for
\* a clip.
C11_InputValidation ==
    (plan_pc \in {"loop", "done"} /\ InvalidPlanInput) =>
        (segments = <<>> /\ plan_pc # "done")

-----------------------------------------------------------------------------
(* Properties of the transcript scanner *)

Occurrences(q) == SumSeq([i \in DOMAIN q |-> q[i].occurrences])
Words(q)       == SumSeq([i \in DOMAIN q |-> q[i].words])
Characters(q)  == SumSeq([i \in DOMAIN q |-> q[i].chars])

\* C19: the total occurrence count is the sum of the per-segment counts; a
\* record exists for a segment exactly if its count is greater than 0, with
\* that count; the records are in increasing segment-index order; the
\* recorded counts add up to the total; total words and total characters
\* are the sums of the per-segment word counts and text lengths; and every
\* transcript has been read when the scanner returns.
C19_ScanAggregation ==
    /\ total_occurrences = Occurrences(scan_seen)
    /\ total_words = Words(scan_seen)
    /\ total_chars = Characters(scan_seen)
    /\ \A i \in DOMAIN scan_seen :
          scan_seen[i].occurrences > 0 <=>
              \E j \in DOMAIN files_with_phrase :
                  files_with_phrase[j].index = scan_seen[i].index
    /\ \A j \in DOMAIN files_with_phrase :
          \E i \in DOMAIN scan_seen :
              /\ scan_seen[i].index = files_with_phrase[j].index
              /\ scan_seen[i].occurrences = files_with_phrase[j].occurrences
    /\ \A j, k \in DOMAIN files_with_phrase :
          j < k => files_with_phrase[j].index < files_with_phrase[k].index
    /\ Occurrences(files_with_phrase) = total_occurrences
    /\ scan_pc = "done" => Len(scan_seen) = scan_n

C19_Witness ==
    /\ scan_pc = "done"
    /\ scan_n = MaxFiles
    /\ scan_seen[1].occurrences = 0 /\ scan_seen[1].words > 0
    /\ Len(files_with_phrase) = 1
    /\ files_with_phrase[1].index = 1
    /\ total_occurrences = 1
    /\ total_words >= 2

ToLower(c) == IF c = "A" THEN "a" ELSE c
ToUpper(c) == IF c = "a" THEN "A" ELSE c
Lowered(t) == [i \in DOMAIN t |-> ToLower(t[i])]
Uppered(t) == [i \in DOMAIN t |-> ToUpper(t[i])]

\* the phrase, letter for letter and blank for blank, lies somewhere in the text
LiesIn(p, t) ==
    \E i \in 1..Len(t) :
        /\ i + Len(p) - 1 <= Len(t)
        /\ \A k \in 1..Len(p) : t[i + k - 1] = p[k]

\* C20: the occurrence count of a phrase in a transcript does not change when
\* the letter case of the transcript or of the phrase is changed, and it is
\* positive exactly if the phrase's characters, its blanks included, lie in
\* the transcript as a substring (case aside), inside a word or not.
C20_CaseInsensitiveLiteral ==
    scan_i > 0 =>
        LET n == scan_seen[Len(scan_seen)].occurrences IN
        /\ n = CountOcc(scan_phrase, Uppered(scan_content))
        /\ n = CountOcc(scan_phrase, Lowered(scan_content))
        /\ n = CountOcc(Uppered(scan_phrase), scan_content)
        /\ n = CountOcc(Lowered(scan_phrase), scan_content)
        /\ n > 0 <=> LiesIn(Lowered(scan_phrase), Lowered(scan_content))

C20_Witness ==
    /\ scan_i > 0
    /\ scan_phrase = <<"a", "a">>
    /\ scan_content = <<"A", "a", "A">>
    /\ scan_seen[Len(scan_seen)].occurrences = 1

-----------------------------------------------------------------------------
(* Properties of one video, from the split to the scan *)

Starts(q) == [i \in DOMAIN q |-> q[i].start]
Counts(q) == [i \in DOMAIN q |-> q[i].occurrences]

\* the scenario of C21: 125 seconds of audio cut into segments of 60 seconds
\* without overlap
Scenario125 ==
    total_duration = 125 /\ segment_duration = 60 /\ overlap = 0

\* C21: for totalDuration=125, segmentDuration=60, overlap=0 the segments are
\* planned at the starts 0, 60, 120; when the transcript of segment 0 holds
\* the phrase not at all, that of segment 1 twice and that of segment 2 once,
\* the result has 3 occurrences in total and exactly two records: segment 1
\* with minute 2 and count 2, then segment 2 with minute 3 and count 1.
C21_EndToEnd ==
    /\ (Scenario125 /\ plan_pc = "done") => Starts(segments) = <<0, 60, 120>>
    /\ (Scenario125 /\ scan_pc = "done" /\ Counts(scan_seen) = <<0, 2, 1>>) =>
          /\ total_occurrences = 3
          /\ files_with_phrase =
                << [index |-> 1, minute |-> 2, occurrences |-> 2],
                   [index |-> 2, minute |-> 3, occurrences |-> 1] >>

\* C31 as stated: the scanner reports the video duration as segmentCount x
\* segmentDuration for the segmentation actually used, and the estimate is
\* never greater than the true total duration.
C31_DurationEstimateBelow ==
    scan_pc = "done" =>
        /\ VideoDurationSec(scan_n) = Len(segments) * segment_duration
        /\ VideoDurationSec(scan_n) <= total_duration

\* C31 (amended): the scanner reports the video duration as segmentCount x
\* segmentDuration for the segmentation actually used; the estimate is never
\* less than the true total duration, exceeds it by less than one segment,
\* and equals it exactly when the final segment is full.
C31_DurationEstimate ==
    scan_pc = "done" =>
        /\ VideoDurationSec(scan_n) = Len(segments) * segment_duration
        /\ VideoDurationSec(scan_n) >= total_duration
        /\ VideoDurationSec(scan_n) - total_duration < segment_duration
        /\ VideoDurationSec(scan_n) = total_duration <=> total_duration % segment_duration = 0

C31_Witness ==
    /\ scan_pc = "done"
    /\ total_duration = 125
    /\ Len(segments) = 3
    /\ VideoDurationSec(scan_n) = 180

C21_Witness ==
    /\ Scenario125
    /\ scan_pc = "done"
    /\ Counts(scan_seen) = <<0, 2, 1>>
    /\ scan_seen[1].chars > 0
    /\ Len(files_with_phrase) = 2

====
